---- MODULE Spec2Model ----
(***************************************************************************)
(* Model of the authenticated batch-upload pipeline of nementium_rocket:   *)
(* the request gateway (src/src/utils/fetchWithAuth.ts), the session state *)
(* of App (src/src/App.tsx) and the upload page                            *)
(* (src/src/pages/UploadPage.tsx, second copy of the component, lines      *)
(* 557-2093).                                                              *)
(*                                                                         *)
(* A React component instance is modelled by its state variables; an async *)
(* handler is modelled by one action per await point, and the values the   *)
(* handler closed over (token, files, the instance that created it) are    *)
(* fields of the record that stands for the running handler.               *)
(***************************************************************************)
EXTENDS Integers, Sequences, FiniteSets, TLC

\* ----------------------------------------------------------------------
\* Bounds of the model
\* ----------------------------------------------------------------------
MaxQueue == 3      \* longest pending queue explored
MaxList == 2       \* longest candidate list handed to addFiles
MaxLogins == 2     \* credentials the remote service issues in one run
MaxNet == 3        \* requests in flight at once
MaxBatches == 2    \* confirmUpload invocations running at once
MaxCount == 2      \* the notice counter saturates here ("more than one")
MaxHeaders == 2    \* caller-supplied header entries of one gateway call

\* ----------------------------------------------------------------------
\* Strings with structure: a file name is a sequence of characters
\* ----------------------------------------------------------------------
UpperChars == <<"A", "B", "C", "D", "F", "L", "P", "S", "T", "X">>
LowerChars == <<"a", "b", "c", "d", "f", "l", "p", "s", "t", "x">>

ToLowerChar(c) ==
    IF \E i \in DOMAIN UpperChars : UpperChars[i] = c
    THEN LowerChars[CHOOSE i \in DOMAIN UpperChars : UpperChars[i] = c]
    ELSE c

toLowerCase(s) == [i \in DOMAIN s |-> ToLowerChar(s[i])]

endsWith(s, suf) ==
    /\ Len(s) >= Len(suf)
    /\ SubSeq(s, Len(s) - Len(suf) + 1, Len(s)) = suf

DotPdf == <<".", "p", "d", "f">>
DotXlsx == <<".", "x", "l", "s", "x">>

ALLOWED_TYPES ==
    << "application/pdf",
       "application/vnd.openxmlformats-officedocument.spreadsheetml.sheet" >>

includes(arr, x) == \E i \in DOMAIN arr : arr[i] = x

\* ----------------------------------------------------------------------
\* Files the operator can select.  A File has a name, a size, a MIME type
\* (derived by the browser from the name) and a content; two File objects
\* with the same name and size may differ in content.
\* ----------------------------------------------------------------------
File(n, sz, ty, c) == [name |-> n, size |-> sz, type |-> ty, content |-> c]

NameOkPdf == <<"o", "k", ".", "p", "d", "f">>
NameBXlsx == <<"b", ".", "x", "l", "s", "x">>
NameDocx == <<"r", ".", "d", "o", "c", "x">>
NameUpper == <<"A", ".", "P", "D", "F">>
NameScan == <<"s", "c", "a", "n">>
NamePdfNoDot == <<"p", "d", "f">>

FOk == File(NameOkPdf, 100, ALLOWED_TYPES[1], 1)
FOkCopy == File(NameOkPdf, 100, ALLOWED_TYPES[1], 2)
FOkBig == File(NameOkPdf, 200, ALLOWED_TYPES[1], 1)
FXlsx == File(NameBXlsx, 200, ALLOWED_TYPES[2], 1)
FDocx == File(NameDocx, 300, "application/msword", 1)
FUpper == File(NameUpper, 100, "", 1)
FScan == File(NameScan, 50, ALLOWED_TYPES[1], 1)
FNoDot == File(NamePdfNoDot, 10, "text/plain", 1)

QueueFiles == {FOk, FOkCopy, FOkBig, FXlsx, FDocx, FUpper, FScan, FNoDot}

SeqsUpTo(S, n) == UNION {[1..k -> S] : k \in 0..n}

\* ----------------------------------------------------------------------
\* State
\* ----------------------------------------------------------------------
VARIABLES
    token,          \* App: the credential, 0 for null
    page,           \* App: the current view
    checkingToken,  \* App: a view-triggered validation is running
    login,          \* LoginPage: "idle" or "sent" (loading)
    up,             \* the mounted UploadPage instance's state
    batches,        \* running confirmUpload invocations (closures)
    net,            \* requests in flight
    accepted,       \* remote service: credentials it still accepts
    issued,         \* remote service: credentials issued so far
    srvOps,         \* remote service: status of each upload record
    delayMs,        \* configuration: UPLOAD_DELAY_MS
    expiredAlerts,  \* per credential, session-expired notices shown
    last            \* the last handler run: its name, input and effects

vars == << token, page, checkingToken, login, up, batches, net, accepted,
           issued, srvOps, delayMs, expiredAlerts, last >>

Pages == {"dashboard", "upload", "estado", "mesdetalle"}
RecIds == {1, 2}
DelayChoices == {0, 500}

\* useState initial values of UploadPage
UploadPageInit ==
    [ docType |-> "", files |-> <<>>, showConfirm |-> FALSE,
      uploading |-> FALSE, uploadingIndex |-> -1, retryingId |-> 0,
      showSuccess |-> FALSE, ops |-> <<>>, opsError |-> FALSE ]

\* App renders the page components only with a credential and no check
PagesShown(tok, chk) == tok # 0 /\ ~chk
Mounted == PagesShown(token, checkingToken) /\ page = "upload"

\* ----------------------------------------------------------------------
\* Effects a handler has on the operator (alerts) and on callbacks
\* ----------------------------------------------------------------------
Fx(k, msg, name) == [k |-> k, msg |-> msg, name |-> name]
FxExpired == Fx("alert", "expired", <<>>)
FxOnLogout == Fx("call", "onLogout", <<>>)
FxIgnored == Fx("alert", "ignored", <<>>)
FxFallo(name) == Fx("alert", "fallo", name)
FxErrorSubiendo == Fx("alert", "errorSubiendo", <<>>)
FxNoSePudo == Fx("alert", "noSePudo", <<>>)
FxSesionCaducada == Fx("alert", "sesionCaducada", <<>>)

Last(act, arg, fx) == [act |-> act, arg |-> arg, fx |-> fx]

Count(fx, e) == Cardinality({i \in DOMAIN fx : fx[i] = e})

\* ----------------------------------------------------------------------
\* Upload Queue Builder (pure part)
\* ----------------------------------------------------------------------
isAllowed(f) ==
    LET name == toLowerCase(f.name)
    IN  \/ includes(ALLOWED_TYPES, f.type)
        \/ endsWith(name, DotPdf)
        \/ endsWith(name, DotXlsx)

SameNameSize(d, f) == d.name = f.name /\ d.size = f.size

\* (faulty variant: candidates are compared with the old queue only)
dedupLoopOldQueueOnly(dedup, valid) ==
    LET fresh(f) == ~\E j \in DOMAIN dedup : SameNameSize(dedup[j], f)
    IN  dedup \o SelectSeq(valid, fresh)

\* the loop "for (const f of valid) { if (!exists) dedup.push(f) }"
RECURSIVE dedupLoop(_, _)
dedupLoop(dedup, valid) ==
    IF valid = <<>> THEN dedup
    ELSE LET f == Head(valid)
             exists == \E j \in DOMAIN dedup : SameNameSize(dedup[j], f)
         IN  dedupLoop(IF exists THEN dedup ELSE Append(dedup, f), Tail(valid))

\* (faulty variant: one rejected candidate rejects the whole list)
addFilesAllOrNothing(files, list) ==
    LET valid == SelectSeq(list, isAllowed)
    IN  IF Len(valid) # Len(list)
        THEN [files |-> files, fx |-> <<FxIgnored>>]
        ELSE [files |-> dedupLoop(files, valid), fx |-> <<>>]

\* addFiles: the new queue and the notice it raises
addFiles(files, list) ==
    LET incoming == list
        valid == SelectSeq(incoming, isAllowed)
    IN  [ files |-> dedupLoop(files, valid),
          fx |-> IF Len(valid) # Len(incoming) THEN <<FxIgnored>> ELSE <<>> ]

removeFile(files, name, size) ==
    LET keep(f) == ~(f.name = name /\ f.size = size)
    IN  SelectSeq(files, keep)

\* ----------------------------------------------------------------------
\* Upload Queue Builder (handlers of the mounted UploadPage)
\* ----------------------------------------------------------------------
AppUnchanged == UNCHANGED << token, page, checkingToken, login >>
ServerUnchanged == UNCHANGED << accepted, issued, srvOps, delayMs >>

AddFiles(list) ==
    /\ Mounted
    /\ LET r == addFiles(up.files, list)
       IN  /\ Len(r.files) <= MaxQueue
           /\ up' = [up EXCEPT !.files = r.files]
           /\ last' = Last("addFiles", list, r.fx)
    /\ AppUnchanged /\ ServerUnchanged
    /\ UNCHANGED << batches, net, expiredAlerts >>

RemoveFile(k) ==
    /\ Mounted
    /\ k \in DOMAIN up.files
    /\ up' = [up EXCEPT !.files = removeFile(up.files, up.files[k].name,
                                             up.files[k].size)]
    /\ last' = Last("removeFile", up.files[k], <<>>)
    /\ AppUnchanged /\ ServerUnchanged
    /\ UNCHANGED << batches, net, expiredAlerts >>

ClearFiles ==
    /\ Mounted
    /\ up.files # <<>>
    /\ up' = [up EXCEPT !.files = <<>>]
    /\ last' = Last("clearFiles", 0, <<>>)
    /\ AppUnchanged /\ ServerUnchanged
    /\ UNCHANGED << batches, net, expiredAlerts >>

\* ----------------------------------------------------------------------
\* Requests in flight.  tok is the credential of the Authorization
\* header; live tells whether the UploadPage instance that issued the
\* request is still mounted; b and x identify the batch and the file index
\* (upload) or the record (retry).  The remote service handles a request
\* at some instant between its issue and the delivery of the response.
\* For the calls that change or read the upload records that instant is a
\* step of its own (ServerHandle): st = 0 before it, the HTTP status after
\* it.  For the other calls only the status matters, and it depends on
\* that instant only through the credential: pre records that the
\* credential was still accepted when the request was issued.
\* ----------------------------------------------------------------------
Req(kind, tok, live, b, x) ==
    [ kind |-> kind, tok |-> tok, live |-> live, b |-> b, x |-> x,
      st |-> 0, items |-> <<>>, n |-> 0, pre |-> FALSE ]

SameKey(q, r) ==
    q.kind = r.kind /\ q.tok = r.tok /\ q.b = r.b /\ q.x = r.x

\* net is a multiset: equal requests are told apart by the serial n
NextN(S, r) ==
    CHOOSE k \in 0..Cardinality(S) :
        /\ \A q \in S : SameKey(q, r) => q.n # k
        /\ \A j \in 0..(k - 1) : \E q \in S : SameKey(q, r) /\ q.n = j

SendAs(S, r, acc) ==
    S \cup {[r EXCEPT !.n = NextN(S, r), !.pre = (r.tok \in acc)]}

RECURSIVE SendAllAs(_, _, _)
SendAllAs(S, rs, acc) ==
    IF rs = <<>> THEN S ELSE SendAllAs(SendAs(S, Head(rs), acc), Tail(rs), acc)

Send(S, r) == SendAs(S, r, accepted)
SendAll(S, rs) == SendAllAs(S, rs, accepted)

\* what the handlers below report of a request in `last`
Seen(r, st, files) ==
    [ kind |-> r.kind, tok |-> r.tok, live |-> r.live, b |-> r.b,
      x |-> r.x, st |-> st, files |-> files ]

HandledKinds == {"upload", "historico", "retry"}

\* calls that go through fetchWithAuth, and MesDetallePage's plain fetch
GatewayKinds == {"me_view", "me_timer", "historico", "upload", "retry",
                 "dashboard", "dashHist", "estado", "chat"}
PlainKinds == {"ventas", "facturas"}

\* (faulty variant: the notice is shown but onLogout is not called)
fetchWithAuthNoticeOnly(status, hasOnLogout) ==
    IF status = 401 /\ hasOnLogout THEN <<FxExpired>> ELSE <<>>

\* fetchWithAuth after the response: the 401 check
fetchWithAuth(status, hasOnLogout) ==
    IF status = 401 /\ hasOnLogout THEN <<FxExpired, FxOnLogout>> ELSE <<>>

\* response.ok
Ok(status) == status >= 200 /\ status <= 299

\* requests a page component issues from its mount effects
MountReqs(pg, tok, live) ==
    CASE pg = "dashboard" -> << Req("dashboard", tok, FALSE, 0, 0),
                                Req("dashHist", tok, FALSE, 0, 0) >>
      [] pg = "upload" -> << Req("historico", tok, live, 0, 0) >>
      [] pg = "estado" -> << Req("estado", tok, FALSE, 0, 0) >>
      [] OTHER -> <<>>

\* an UploadPage instance that is unmounted leaves its handlers running
OrphanN(S) == {[r EXCEPT !.live = FALSE] : r \in S}
OrphanB(S) == {[c EXCEPT !.live = FALSE] : c \in S}

Bump(cnt, t) ==
    [cnt EXCEPT ![t] = IF @ < MaxCount THEN @ + 1 ELSE @]

\* ----------------------------------------------------------------------
\* Remote service
\* ----------------------------------------------------------------------
ServerStatus(r) == IF r.tok \in accepted THEN {200, 500} ELSE {401}

\* the statuses the response to r can have when it is delivered
Answers(r) ==
    IF r.kind \in HandledKinds THEN {r.st} \ {0}
    ELSE IF r.tok \in accepted THEN {200, 500}
    ELSE IF r.pre THEN {200, 500, 401}
    ELSE {401}

\* GET /api/uploads/historico: the records, most recent (highest id) first
OpsList(ops) ==
    [k \in 1..Cardinality(RecIds) |->
        LET id == Cardinality(RecIds) + 1 - k
        IN  [id |-> id, status |-> ops[id]]]

ServerExpire(t) ==
    /\ t \in accepted
    /\ accepted' = accepted \ {t}
    /\ last' = Last("server", 0, <<>>)
    /\ AppUnchanged
    /\ UNCHANGED << up, batches, net, issued, srvOps, delayMs, expiredAlerts >>

ServerHandle(r) ==
    /\ r \in net
    /\ r.kind \in HandledKinds
    /\ r.st = 0
    /\ \E s \in ServerStatus(r) :
        /\ net' = (net \ {r}) \cup
             {[r EXCEPT !.st = s,
                        !.items = IF r.kind = "historico" /\ Ok(s)
                                  THEN OpsList(srvOps) ELSE <<>>]}
        /\ IF r.kind = "retry" /\ Ok(s)
           THEN \E o \in {"PROCESSED", "FAILED"} :
                    srvOps' = [srvOps EXCEPT ![r.x] = o]
           ELSE srvOps' = srvOps
    /\ batches' = IF r.kind = "upload"
                  THEN {IF c.b = r.b THEN [c EXCEPT !.seen = Append(@, r.x)]
                        ELSE c : c \in batches}
                  ELSE batches
    /\ last' = Last("server", 0, <<>>)
    /\ AppUnchanged
    /\ UNCHANGED << up, accepted, issued, delayMs, expiredAlerts >>

\* ----------------------------------------------------------------------
\* App: session state, rendering, validation
\* ----------------------------------------------------------------------
FxHandleLogout == Fx("call", "handleLogout", <<>>)

\* The App state becomes (tok2, pg2, chk2) and React renders: an UploadPage
\* that is no longer rendered is unmounted, its state is discarded and the
\* handlers it started keep running on their closures.
Commit(tok2, pg2, chk2, up2, bat2, net2) ==
    LET gone == Mounted /\ ~(PagesShown(tok2, chk2) /\ pg2 = "upload")
    IN  /\ token' = tok2
        /\ page' = pg2
        /\ checkingToken' = chk2
        /\ up' = IF gone THEN UploadPageInit ELSE up2
        /\ batches' = IF gone THEN OrphanB(bat2) ELSE bat2
        /\ net' = IF gone THEN OrphanN(net2) ELSE net2

\* what a gateway response does to the session: handleLogout on a 401
AfterGateway(r, st) ==
    LET gfx == IF r.kind \in GatewayKinds
               THEN fetchWithAuth(st, TRUE) ELSE <<>>
        out == Count(gfx, FxOnLogout) > 0
    IN  [ fx |-> gfx,
          token |-> IF out THEN 0 ELSE token,
          page |-> IF out THEN "dashboard" ELSE page,
          alerts |-> IF Count(gfx, FxExpired) > 0
                     THEN Bump(expiredAlerts, r.tok) ELSE expiredAlerts ]

LoginSubmit ==
    /\ token = 0
    /\ login = "idle"
    /\ login' = "sent"
    /\ last' = Last("loginSubmit", 0, <<>>)
    /\ ServerUnchanged
    /\ UNCHANGED << token, page, checkingToken, up, batches, net,
                    expiredAlerts >>

\* POST /auth/token answered with a credential: onLogin = setToken; the
\* page of the current view mounts if no check is running, then the
\* [token, page] effect starts verifyToken, which hides the pages again.
LoginOk ==
    /\ token = 0
    /\ login = "sent"
    /\ issued < MaxLogins
    /\ LET t == issued + 1
           reqs == IF checkingToken THEN <<>> ELSE MountReqs(page, t, FALSE)
           acc == accepted \cup {t}
           net2 == SendAs(SendAllAs(net, reqs, acc),
                          Req("me_view", t, FALSE, 0, 0), acc)
       IN  /\ Cardinality(net2) <= MaxNet
           /\ issued' = t
           /\ accepted' = accepted \cup {t}
           /\ login' = "idle"
           /\ Commit(t, page, TRUE, up, batches, net2)
    /\ last' = Last("loginOk", 0, <<>>)
    /\ UNCHANGED << srvOps, delayMs, expiredAlerts >>

\* (faulty variant: onLogin is called whatever the response)
LoginFailLogsIn ==
    /\ token = 0
    /\ login = "sent"
    /\ login' = "idle"
    /\ token' = 1
    /\ last' = Last("loginFail", 0, <<>>)
    /\ ServerUnchanged
    /\ UNCHANGED << page, checkingToken, up, batches, net, expiredAlerts >>

\* a response that is not ok, or a rejected request: setError
LoginFail ==
    /\ token = 0
    /\ login = "sent"
    /\ login' = "idle"
    /\ last' = Last("loginFail", 0, <<>>)
    /\ ServerUnchanged
    /\ UNCHANGED << token, page, checkingToken, up, batches, net,
                    expiredAlerts >>

\* (faulty variant: only the credential is cleared)
handleLogoutKeepsPage ==
    /\ PagesShown(token, checkingToken)
    /\ Commit(0, page, checkingToken, up, batches, net)
    /\ last' = Last("handleLogout", 0, <<FxHandleLogout>>)
    /\ ServerUnchanged
    /\ UNCHANGED << login, expiredAlerts >>

\* handleLogout of App, from the "Cerrar sesión" button
handleLogout ==
    /\ PagesShown(token, checkingToken)
    /\ Commit(0, "dashboard", checkingToken, up, batches, net)
    /\ last' = Last("handleLogout", 0, <<FxHandleLogout>>)
    /\ ServerUnchanged
    /\ UNCHANGED << login, expiredAlerts >>

\* a navigation button: the new page mounts and fires its effects, then
\* verifyToken sets checkingToken and the page is unmounted again
setPage(p) ==
    /\ PagesShown(token, checkingToken)
    /\ p # page
    /\ LET net2 == Send(SendAll(net, MountReqs(p, token, FALSE)),
                        Req("me_view", token, FALSE, 0, 0))
       IN  /\ Cardinality(net2) <= MaxNet
           /\ Commit(token, p, TRUE, up, batches, net2)
    /\ last' = Last("setPage", 0, <<>>)
    /\ ServerUnchanged
    /\ UNCHANGED << login, expiredAlerts >>

\* the five-minute interval of the [token] effect
TimerFire ==
    /\ token # 0
    /\ Cardinality(net) < MaxNet
    /\ net' = Send(net, Req("me_timer", token, FALSE, 0, 0))
    /\ last' = Last("timer", 0, <<>>)
    /\ AppUnchanged /\ ServerUnchanged
    /\ UNCHANGED << up, batches, expiredAlerts >>

\* verifyToken after its response: try / finally
DeliverMeView(r, st) ==
    /\ r \in net /\ r.kind = "me_view" /\ st \in Answers(r)
    /\ LET g == AfterGateway(r, st)
           mountNow == ~PagesShown(token, checkingToken)
                       /\ PagesShown(g.token, FALSE)
           net1 == net \ {r}
           net2 == IF mountNow
                   THEN SendAll(net1, MountReqs(g.page, g.token, TRUE))
                   ELSE net1
       IN  /\ Cardinality(net2) <= MaxNet
           /\ Commit(g.token, g.page, FALSE, up, batches, net2)
           /\ expiredAlerts' = g.alerts
           /\ last' = Last("deliver", Seen(r, st, <<>>), g.fx)
    /\ ServerUnchanged
    /\ UNCHANGED << login >>

\* (faulty variant: the catch block only logs the error)
RejectMeViewLogged(r) ==
    /\ r \in net /\ r.kind = "me_view"
    /\ Commit(token, page, FALSE, up, batches, net \ {r})
    /\ last' = Last("reject", Seen(r, 0, <<>>), <<>>)
    /\ ServerUnchanged
    /\ UNCHANGED << login, expiredAlerts >>

\* verifyToken when fetch rejects: catch calls handleLogout, then finally
RejectMeView(r) ==
    /\ r \in net /\ r.kind = "me_view"
    /\ Commit(0, "dashboard", FALSE, up, batches, net \ {r})
    /\ last' = Last("reject", Seen(r, 0, <<>>), <<FxHandleLogout>>)
    /\ ServerUnchanged
    /\ UNCHANGED << login, expiredAlerts >>

\* responses of the calls whose component state is not modelled: the
\* periodic validation, DashboardPage, EstadoModelosPage, ChatAssistant
SimpleKinds == {"me_timer", "dashboard", "dashHist", "estado", "chat"}

DeliverSimple(r, st) ==
    /\ r \in net /\ r.kind \in SimpleKinds /\ st \in Answers(r)
    /\ LET g == AfterGateway(r, st)
       IN  /\ Commit(g.token, g.page, checkingToken, up, batches, net \ {r})
           /\ expiredAlerts' = g.alerts
           /\ last' = Last("deliver", Seen(r, st, <<>>), g.fx)
    /\ ServerUnchanged
    /\ UNCHANGED << login >>

\* only the periodic validation logs out when fetch rejects
RejectSimple(r) ==
    /\ r \in net /\ r.kind \in SimpleKinds
    /\ IF r.kind = "me_timer"
       THEN /\ Commit(0, "dashboard", checkingToken, up, batches, net \ {r})
            /\ last' = Last("reject", Seen(r, 0, <<>>), <<FxHandleLogout>>)
       ELSE /\ Commit(token, page, checkingToken, up, batches, net \ {r})
            /\ last' = Last("reject", Seen(r, 0, <<>>), <<>>)
    /\ ServerUnchanged
    /\ UNCHANGED << login, expiredAlerts >>

\* ChatAssistant.handleSubmit (isLoading allows one message at a time)
ChatSend ==
    /\ PagesShown(token, checkingToken)
    /\ ~\E q \in net : q.kind = "chat"
    /\ Cardinality(net) < MaxNet
    /\ net' = Send(net, Req("chat", token, FALSE, 0, 0))
    /\ last' = Last("chatSend", 0, <<>>)
    /\ AppUnchanged /\ ServerUnchanged
    /\ UNCHANGED << up, batches, expiredAlerts >>

\* MesDetallePage.fetchData: plain fetch, ventas and then facturas
fetchData ==
    /\ PagesShown(token, checkingToken) /\ page = "mesdetalle"
    /\ Cardinality(net) < MaxNet
    /\ net' = Send(net, Req("ventas", token, FALSE, 0, 0))
    /\ last' = Last("fetchData", 0, <<>>)
    /\ AppUnchanged /\ ServerUnchanged
    /\ UNCHANGED << up, batches, expiredAlerts >>

DeliverPlain(r, st) ==
    /\ r \in net /\ r.kind \in PlainKinds /\ st \in Answers(r)
    /\ LET g == AfterGateway(r, st)
           net1 == net \ {r}
           net2 == IF r.kind = "ventas" /\ Ok(st)
                   THEN Send(net1, Req("facturas", r.tok, FALSE, 0, 0))
                   ELSE net1
       IN  /\ Cardinality(net2) <= MaxNet
           /\ Commit(g.token, g.page, checkingToken, up, batches, net2)
           /\ expiredAlerts' = g.alerts
           /\ last' = Last("deliver", Seen(r, st, <<>>), g.fx)
    /\ ServerUnchanged
    /\ UNCHANGED << login >>

RejectPlain(r) ==
    /\ r \in net /\ r.kind \in PlainKinds
    /\ net' = net \ {r}
    /\ last' = Last("reject", Seen(r, 0, <<>>), <<>>)
    /\ AppUnchanged /\ ServerUnchanged
    /\ UNCHANGED << up, batches, expiredAlerts >>

\* ----------------------------------------------------------------------
\* UploadPage: document kind, confirmation dialog
\* ----------------------------------------------------------------------
UpOnly == AppUnchanged /\ ServerUnchanged
          /\ UNCHANGED << batches, net, expiredAlerts >>

setDocType(t) ==
    /\ Mounted
    /\ t # up.docType
    /\ up' = [up EXCEPT !.docType = t]
    /\ last' = Last("setDocType", 0, <<>>)
    /\ UpOnly

\* the body of startUpload: three checks, then the confirmation dialog
startUploadRun ==
    IF token = 0
    THEN up' = up /\ last' = Last("startUpload", 0, <<FxSesionCaducada>>)
    ELSE IF up.docType = ""
    THEN up' = up
         /\ last' = Last("startUpload", 0, <<Fx("alert", "selTipo", <<>>)>>)
    ELSE IF Len(up.files) = 0
    THEN up' = up
         /\ last' = Last("startUpload", 0, <<Fx("alert", "selArchivo", <<>>)>>)
    ELSE up' = [up EXCEPT !.showConfirm = TRUE]
         /\ last' = Last("startUpload", 0, <<>>)

\* the button is rendered with files.length > 0 && docType, and disabled
\* while uploading
startUploadShown == Len(up.files) > 0 /\ up.docType # "" /\ ~up.uploading

startUpload ==
    /\ Mounted
    /\ startUploadShown
    /\ startUploadRun
    /\ UpOnly

cancelConfirm ==
    /\ Mounted
    /\ up.showConfirm /\ ~up.uploading
    /\ up' = [up EXCEPT !.showConfirm = FALSE]
    /\ last' = Last("cancelConfirm", 0, <<>>)
    /\ UpOnly

closeSuccess ==
    /\ Mounted
    /\ up.showSuccess
    /\ up' = [up EXCEPT !.showSuccess = FALSE]
    /\ last' = Last("closeSuccess", 0, <<>>)
    /\ UpOnly

\* ----------------------------------------------------------------------
\* Batch Upload Controller: confirmUpload.  A running invocation is a
\* record of what it closed over (token, files, docType, the instance) and
\* of where its loop stands: i is the loop index, pc the await it is
\* suspended at, seen the file indices the remote service has received.
\* ----------------------------------------------------------------------
Batch(b, tok, files, docType) ==
    [ b |-> b, live |-> TRUE, tok |-> tok, files |-> files,
      docType |-> docType, i |-> 0, pc |-> "await", seen |-> <<>> ]

FreeBatchId == CHOOSE b \in 1..(Cardinality(batches) + 1) :
                  /\ \A c \in batches : c.b # b
                  /\ \A j \in 1..(b - 1) : \E c \in batches : c.b = j

BatchOf(r) == CHOOSE c \in batches : c.b = r.b

\* (faulty variant: the request is not awaited, the next one follows at once)
IssueUploadNoAwait(c, i) ==
    IF i + 1 < Len(c.files)
    THEN << Req("upload", c.tok, c.live, c.b, i),
            Req("upload", c.tok, c.live, c.b, i + 1) >>
    ELSE << Req("upload", c.tok, c.live, c.b, i) >>

\* the request(s) iteration i of the loop issues before it awaits
IssueUpload(c, i) ==
    << Req("upload", c.tok, c.live, c.b, i) >>

\* the state setters of an unmounted instance do nothing
SetUp(c, up1, up2) == IF c.live THEN up2 ELSE up1

\* (faulty variant: no finally block after the last file)
StartIterFlagLeft(c, i, up1, bat1, net1) ==
    IF i < Len(c.files)
    THEN [ up |-> SetUp(c, up1, [up1 EXCEPT !.uploadingIndex = i]),
           batches |-> (bat1 \ {c}) \cup {[c EXCEPT !.i = i, !.pc = "await"]},
           net |-> SendAll(net1, IssueUpload(c, i)),
           done |-> FALSE ]
    ELSE [ up |-> SetUp(c, up1, [up1 EXCEPT !.showConfirm = FALSE,
                                            !.files = <<>>,
                                            !.showSuccess = TRUE]),
           batches |-> bat1 \ {c},
           net |-> net1,
           done |-> TRUE ]

\* Iteration i of "for (let i = 0; i < files.length; i++)" up to its await;
\* past the last file: the statements after the loop and the finally block
StartIter(c, i, up1, bat1, net1) ==
    IF i < Len(c.files)
    THEN [ up |-> SetUp(c, up1, [up1 EXCEPT !.uploadingIndex = i]),
           batches |-> (bat1 \ {c}) \cup {[c EXCEPT !.i = i, !.pc = "await"]},
           net |-> SendAll(net1, IssueUpload(c, i)),
           done |-> FALSE ]
    ELSE [ up |-> SetUp(c, up1, [up1 EXCEPT !.showConfirm = FALSE,
                                            !.files = <<>>,
                                            !.showSuccess = TRUE,
                                            !.uploading = FALSE,
                                            !.uploadingIndex = -1]),
           batches |-> bat1 \ {c},
           net |-> net1,
           done |-> TRUE ]

\* the body of confirmUpload up to its first await
confirmUploadRun ==
    IF token = 0 \/ up.docType = "" \/ Len(up.files) = 0
    THEN /\ UNCHANGED << up, batches, net >>
         /\ last' = Last("confirmUpload", 0, <<>>)
    ELSE LET c == Batch(FreeBatchId, token, up.files, up.docType)
             s == StartIter(c, 0, [up EXCEPT !.uploading = TRUE,
                                             !.uploadingIndex = 0],
                            batches \cup {c}, net)
         IN  /\ Cardinality(batches) < MaxBatches
             /\ Cardinality(s.net) <= MaxNet
             /\ up' = s.up
             /\ batches' = s.batches
             /\ net' = s.net
             /\ last' = Last("confirmUpload", c.b, <<>>)

\* the buttons of the confirmation dialog are hidden while uploading
confirmShown == up.showConfirm /\ ~up.uploading

confirmUpload ==
    /\ Mounted
    /\ confirmShown
    /\ confirmUploadRun
    /\ AppUnchanged /\ ServerUnchanged
    /\ UNCHANGED << expiredAlerts >>

\* (faulty variant: "break" instead of "continue")
ContinueAsBreak(c, up1, bat1, net1) ==
    StartIter(c, Len(c.files), up1, bat1, net1)

\* "continue" after a response that is not ok: on to the next iteration
Continue(c, up1, bat1, net1) == StartIter(c, c.i + 1, up1, bat1, net1)

\* (faulty variant: the history is not refreshed)
loadHistoricoSkipped(S, tok, live) == S

\* loadHistorico() of the instance: the request it issues
loadHistorico(S, tok, live) == Send(S, Req("historico", tok, live, 0, 0))

\* the loop body after "await fetchWithAuth(...)"
DeliverUpload(r) ==
    /\ r \in net /\ r.kind = "upload" /\ r.st # 0
    /\ LET c == BatchOf(r)
           g == AfterGateway(r, r.st)
           net1 == net \ {r}
           netH == loadHistorico(net1, c.tok, c.live)
           s == IF ~Ok(r.st)
                THEN Continue(c, up, batches, net1)
                ELSE IF delayMs > 0
                THEN [ up |-> up,
                       batches |-> (batches \ {c}) \cup {[c EXCEPT !.pc = "sleep"]},
                       net |-> netH, done |-> FALSE ]
                ELSE StartIter(c, c.i + 1, up, batches, netH)
           fx == IF ~Ok(r.st)
                 THEN g.fx \o <<FxFallo(c.files[c.i + 1].name)>>
                 ELSE g.fx
       IN  /\ Cardinality(s.net) <= MaxNet
           /\ Commit(g.token, g.page, checkingToken, s.up, s.batches, s.net)
           /\ expiredAlerts' = g.alerts
           /\ last' = Last(IF s.done THEN "batchDone" ELSE "deliver",
                           Seen(r, r.st, c.files), fx)
    /\ ServerUnchanged
    /\ UNCHANGED << login >>

\* "await sleep(UPLOAD_DELAY_MS)" is over
SleepDone(c) ==
    /\ c \in batches /\ c.pc = "sleep"
    /\ LET s == StartIter(c, c.i + 1, up, batches, net)
       IN  /\ Cardinality(s.net) <= MaxNet
           /\ up' = s.up
           /\ batches' = s.batches
           /\ net' = s.net
           /\ last' = Last(IF s.done THEN "batchDone" ELSE "sleepDone",
                           Seen(Req("sleep", c.tok, c.live, c.b, c.i), 0,
                                c.files), <<>>)
    /\ AppUnchanged /\ ServerUnchanged
    /\ UNCHANGED << expiredAlerts >>

\* (faulty variant: the statements after the loop run on a rejection too)
RejectUploadClearsQueue(r) ==
    /\ r \in net /\ r.kind = "upload"
    /\ LET c == BatchOf(r)
       IN  /\ up' = SetUp(c, up, [up EXCEPT !.showConfirm = FALSE,
                                            !.files = <<>>,
                                            !.uploading = FALSE,
                                            !.uploadingIndex = -1])
           /\ batches' = batches \ {c}
           /\ net' = net \ {r}
           /\ last' = Last("reject", Seen(r, 0, c.files),
                           <<FxErrorSubiendo>>)
    /\ AppUnchanged /\ ServerUnchanged
    /\ UNCHANGED << expiredAlerts >>

\* fetch rejects: the catch around the loop, then finally
RejectUpload(r) ==
    /\ r \in net /\ r.kind = "upload"
    /\ LET c == BatchOf(r)
       IN  /\ up' = SetUp(c, up, [up EXCEPT !.uploading = FALSE,
                                            !.uploadingIndex = -1])
           /\ batches' = batches \ {c}
           /\ net' = net \ {r}
           /\ last' = Last("reject", Seen(r, 0, c.files),
                           <<FxErrorSubiendo>>)
    /\ AppUnchanged /\ ServerUnchanged
    /\ UNCHANGED << expiredAlerts >>

\* ----------------------------------------------------------------------
\* History Tracker and manual retry
\* ----------------------------------------------------------------------
\* (faulty variant: the received records are added to the displayed ones)
DeliverHistoricoAppending(r) ==
    /\ r \in net /\ r.kind = "historico" /\ r.st # 0
    /\ LET g == AfterGateway(r, r.st)
           up2 == IF ~r.live THEN up
                  ELSE IF Ok(r.st) THEN [up EXCEPT !.ops = @ \o r.items]
                  ELSE [up EXCEPT !.opsError = TRUE]
       IN  /\ Commit(g.token, g.page, checkingToken, up2, batches, net \ {r})
           /\ expiredAlerts' = g.alerts
           /\ last' = Last("deliver", Seen(r, r.st, <<>>), g.fx)
    /\ ServerUnchanged
    /\ UNCHANGED << login >>

\* loadHistorico().then(...).catch(...)
DeliverHistorico(r) ==
    /\ r \in net /\ r.kind = "historico" /\ r.st # 0
    /\ LET g == AfterGateway(r, r.st)
           up2 == IF ~r.live THEN up
                  ELSE IF Ok(r.st) THEN [up EXCEPT !.ops = r.items]
                  ELSE [up EXCEPT !.opsError = TRUE]
       IN  /\ Commit(g.token, g.page, checkingToken, up2, batches, net \ {r})
           /\ expiredAlerts' = g.alerts
           /\ last' = Last("deliver", Seen(r, r.st, <<>>), g.fx)
    /\ ServerUnchanged
    /\ UNCHANGED << login >>

RejectHistorico(r) ==
    /\ r \in net /\ r.kind = "historico"
    /\ up' = IF r.live THEN [up EXCEPT !.opsError = TRUE] ELSE up
    /\ net' = net \ {r}
    /\ last' = Last("reject", Seen(r, 0, <<>>), <<>>)
    /\ AppUnchanged /\ ServerUnchanged
    /\ UNCHANGED << batches, expiredAlerts >>

\* the retry button of record id: rendered for FAILED records, disabled
\* while retryingId === op.id
RetryEnabled(id) ==
    /\ \E k \in DOMAIN up.ops : up.ops[k].id = id /\ up.ops[k].status = "FAILED"
    /\ up.retryingId # id

retryWebhook(id) ==
    /\ Mounted
    /\ RetryEnabled(id)
    /\ IF token = 0
       THEN /\ UNCHANGED << up, net >>
            /\ last' = Last("retryWebhook", id, <<FxSesionCaducada>>)
       ELSE /\ Cardinality(net) < MaxNet
            /\ up' = [up EXCEPT !.retryingId = id]
            /\ net' = Send(net, Req("retry", token, TRUE, 0, id))
            /\ last' = Last("retryWebhook", id, <<>>)
    /\ AppUnchanged /\ ServerUnchanged
    /\ UNCHANGED << batches, expiredAlerts >>

\* (faulty variant: a successful retry marks its record locally)
DeliverRetryMarksRecord(r) ==
    /\ r \in net /\ r.kind = "retry" /\ r.st # 0
    /\ LET g == AfterGateway(r, r.st)
           net1 == net \ {r}
           net2 == IF Ok(r.st)
                   THEN Send(net1, Req("historico", r.tok, r.live, 0, 0))
                   ELSE net1
           marked == [k \in DOMAIN up.ops |->
                        IF up.ops[k].id = r.x /\ Ok(r.st)
                        THEN [up.ops[k] EXCEPT !.status = "PROCESSED"]
                        ELSE up.ops[k]]
           up2 == IF r.live
                  THEN [up EXCEPT !.retryingId = 0, !.ops = marked]
                  ELSE up
           fx == IF Ok(r.st) THEN g.fx ELSE g.fx \o <<FxNoSePudo>>
       IN  /\ Cardinality(net2) <= MaxNet
           /\ Commit(g.token, g.page, checkingToken, up2, batches, net2)
           /\ expiredAlerts' = g.alerts
           /\ last' = Last("deliver", Seen(r, r.st, <<>>), fx)
    /\ ServerUnchanged
    /\ UNCHANGED << login >>

\* after "await fetchWithAuth(...)": throw on !r.ok, else loadHistorico;
\* catch alerts; finally setRetryingId(null)
DeliverRetry(r) ==
    /\ r \in net /\ r.kind = "retry" /\ r.st # 0
    /\ LET g == AfterGateway(r, r.st)
           net1 == net \ {r}
           net2 == IF Ok(r.st)
                   THEN Send(net1, Req("historico", r.tok, r.live, 0, 0))
                   ELSE net1
           up2 == IF r.live THEN [up EXCEPT !.retryingId = 0] ELSE up
           fx == IF Ok(r.st) THEN g.fx ELSE g.fx \o <<FxNoSePudo>>
       IN  /\ Cardinality(net2) <= MaxNet
           /\ Commit(g.token, g.page, checkingToken, up2, batches, net2)
           /\ expiredAlerts' = g.alerts
           /\ last' = Last("deliver", Seen(r, r.st, <<>>), fx)
    /\ ServerUnchanged
    /\ UNCHANGED << login >>

\* (faulty variant: no finally block, the guard stays set)
RejectRetryGuardKept(r) ==
    /\ r \in net /\ r.kind = "retry"
    /\ up' = up
    /\ net' = net \ {r}
    /\ last' = Last("reject", Seen(r, 0, <<>>), <<FxNoSePudo>>)
    /\ AppUnchanged /\ ServerUnchanged
    /\ UNCHANGED << batches, expiredAlerts >>

\* fetch rejects: catch alerts; finally setRetryingId(null)
RejectRetry(r) ==
    /\ r \in net /\ r.kind = "retry"
    /\ up' = IF r.live THEN [up EXCEPT !.retryingId = 0] ELSE up
    /\ net' = net \ {r}
    /\ last' = Last("reject", Seen(r, 0, <<>>), <<FxNoSePudo>>)
    /\ AppUnchanged /\ ServerUnchanged
    /\ UNCHANGED << batches, expiredAlerts >>

\* ----------------------------------------------------------------------
\* Specification
\* ----------------------------------------------------------------------
FA == FOk
FB == FXlsx
OperatorLists == {<<FA>>, <<FB>>, <<FA, FB>>, <<FDocx, FA>>}

Init ==
    /\ token = 0
    /\ page = "dashboard"
    /\ checkingToken = FALSE
    /\ login = "idle"
    /\ up = UploadPageInit
    /\ batches = {}
    /\ net = {}
    /\ accepted = {}
    /\ issued = 0
    /\ srvOps = [id \in RecIds |-> "FAILED"]
    /\ delayMs \in DelayChoices
    /\ expiredAlerts = [t \in 1..MaxLogins |-> 0]
    /\ last = Last("init", 0, <<>>)

Next ==
    \/ LoginSubmit
    \/ LoginOk
    \/ LoginFail
    \/ handleLogout
    \/ \E p \in Pages : setPage(p)
    \/ TimerFire
    \/ ChatSend
    \/ fetchData
    \/ \E t \in 1..MaxLogins : ServerExpire(t)
    \/ \E r \in net : \E st \in {200, 401, 500} : DeliverMeView(r, st)
    \/ \E r \in net : RejectMeView(r)
    \/ \E r \in net : \E st \in {200, 401, 500} : DeliverSimple(r, st)
    \/ \E r \in net : RejectSimple(r)
    \/ \E r \in net : \E st \in {200, 401, 500} : DeliverPlain(r, st)
    \/ \E r \in net : RejectPlain(r)
    \/ \E list \in OperatorLists : AddFiles(list)
    \/ \E k \in 1..MaxQueue : RemoveFile(k)
    \/ ClearFiles
    \/ \E t \in {"factura", "venta"} : setDocType(t)
    \/ startUpload
    \/ cancelConfirm
    \/ closeSuccess
    \/ confirmUpload
    \/ \E r \in net : DeliverUpload(r)
    \/ \E r \in net : RejectUpload(r)
    \/ \E c \in batches : SleepDone(c)
    \/ \E r \in net : DeliverHistorico(r)
    \/ \E r \in net : RejectHistorico(r)
    \/ \E id \in RecIds : retryWebhook(id)
    \/ \E r \in net : DeliverRetry(r)
    \/ \E r \in net : RejectRetry(r)

Spec == Init /\ [][Next]_vars

TypeOK ==
    /\ token \in 0..MaxLogins
    /\ page \in Pages
    /\ checkingToken \in BOOLEAN
    /\ login \in {"idle", "sent"}
    /\ Cardinality(net) <= MaxNet + 1
    /\ Cardinality(batches) <= MaxBatches
    /\ ~Mounted => up = UploadPageInit
    /\ token = 0 => page = "dashboard"

\* ----------------------------------------------------------------------
\* The upload view in use: the operator has logged in, opened the upload
\* view, the validation has succeeded and the history has been loaded.
\* ----------------------------------------------------------------------
InitUpload ==
    /\ token = 1
    /\ page = "upload"
    /\ checkingToken = FALSE
    /\ login = "idle"
    /\ srvOps = [id \in RecIds |-> "FAILED"]
    /\ up = [UploadPageInit EXCEPT !.ops = OpsList(srvOps)]
    /\ batches = {}
    /\ net = {}
    /\ accepted = {1}
    /\ issued = 1
    /\ delayMs \in DelayChoices
    /\ expiredAlerts = [t \in 1..MaxLogins |-> 0]
    /\ last = Last("init", 0, <<>>)

\* Batch uploads: a queue has been built and a document kind chosen; the
\* dialog, the loop, the remote service, logout
BatchQueues ==
    {SubSeq(<<FA, FB, FOkBig, FUpper, FScan>>, 1, k) : k \in 1..MaxQueue}

InitBatch ==
    /\ token = 1
    /\ page = "upload"
    /\ checkingToken = FALSE
    /\ login = "idle"
    /\ srvOps = [id \in RecIds |-> "FAILED"]
    /\ \E q \in BatchQueues :
          up = [UploadPageInit EXCEPT !.ops = OpsList(srvOps),
                                      !.docType = "factura", !.files = q]
    /\ batches = {}
    /\ net = {}
    /\ accepted = {1}
    /\ issued = 1
    /\ delayMs \in DelayChoices
    /\ expiredAlerts = [t \in 1..MaxLogins |-> 0]
    /\ last = Last("init", 0, <<>>)

NextBatch ==
    \/ startUpload
    \/ cancelConfirm
    \/ closeSuccess
    \/ confirmUpload
    \/ \E r \in net : DeliverUpload(r)
    \/ \E r \in net : RejectUpload(r)
    \/ \E c \in batches : SleepDone(c)
    \/ \E r \in net : DeliverHistorico(r)
    \/ \E r \in net : RejectHistorico(r)
    \/ \E r \in net : ServerHandle(r)
    \/ \E t \in 1..MaxLogins : ServerExpire(t)
    \/ handleLogout

SpecBatch == InitBatch /\ [][NextBatch]_vars

\* The queue builder alone, on every candidate list over QueueFiles
NextQueue ==
    \/ \E list \in SeqsUpTo(QueueFiles, MaxList) : AddFiles(list)
    \/ \E k \in 1..MaxQueue : RemoveFile(k)
    \/ ClearFiles

SpecQueue == InitUpload /\ [][NextQueue]_vars

\* The session: login, logout, navigation, validation, and the calls of
\* the views other than the batch upload
NextSession ==
    \/ LoginSubmit
    \/ LoginOk
    \/ LoginFail
    \/ handleLogout
    \/ TimerFire
    \/ \E t \in 1..MaxLogins : ServerExpire(t)
    \/ \E r \in net : \E st \in {200, 401, 500} : DeliverMeView(r, st)
    \/ \E r \in net : RejectMeView(r)
    \/ \E r \in net : \E st \in {200, 401, 500} : DeliverSimple(r, st)
    \/ \E r \in net : RejectSimple(r)

InitSession == Init /\ delayMs = 0

SpecSession == InitSession /\ [][NextSession]_vars

\* The monthly detail view in use, after login and validation
InitDetail ==
    /\ token = 1
    /\ page = "mesdetalle"
    /\ checkingToken = FALSE
    /\ login = "idle"
    /\ srvOps = [id \in RecIds |-> "FAILED"]
    /\ up = UploadPageInit
    /\ batches = {}
    /\ net = {}
    /\ accepted = {1}
    /\ issued = 1
    /\ delayMs = 0
    /\ expiredAlerts = [t \in 1..MaxLogins |-> 0]
    /\ last = Last("init", 0, <<>>)

NextDetail ==
    \/ fetchData
    \/ ChatSend
    \/ TimerFire
    \/ \E t \in 1..MaxLogins : ServerExpire(t)
    \/ \E r \in net : \E st \in {200, 401, 500} : DeliverPlain(r, st)
    \/ \E r \in net : RejectPlain(r)
    \/ \E r \in net : \E st \in {200, 401, 500} : DeliverSimple(r, st)
    \/ \E r \in net : RejectSimple(r)
    \/ handleLogout

SpecDetail == InitDetail /\ [][NextDetail]_vars

\* Manual retry on the loaded history
NextRetry ==
    \/ \E id \in RecIds : retryWebhook(id)
    \/ \E r \in net : DeliverRetry(r)
    \/ \E r \in net : RejectRetry(r)
    \/ \E r \in net : DeliverHistorico(r)
    \/ \E r \in net : RejectHistorico(r)
    \/ \E r \in net : ServerHandle(r)
    \/ handleLogout

SpecRetry == InitUpload /\ [][NextRetry]_vars

\* ======================================================================
\* Properties
\* ======================================================================
UploadsOf(b) == {r \in net : r.kind = "upload" /\ r.b = b}

\* C1: within one batch the upload requests reach the remote service in
\* the order of the queue (indices 0, 1, 2, ... of the files the batch was
\* started with), the request for a file is issued only when every earlier
\* request has been received and answered, and at most one upload request
\* of the batch is in flight.
C1_SequentialOrder ==
    \A c \in batches :
        /\ Cardinality(UploadsOf(c.b)) <= 1
        /\ \A j \in DOMAIN c.seen : c.seen[j] = j - 1
        /\ \A r \in UploadsOf(c.b) :
              /\ r.x = c.i
              /\ r.x < Len(c.files)
              /\ Len(c.seen) = IF r.st = 0 THEN r.x ELSE r.x + 1
        /\ UploadsOf(c.b) = {} => c.pc = "sleep"

C1_Witness ==
    \E c \in batches :
        /\ Len(c.files) >= 2
        /\ c.seen = <<0, 1>>
        /\ \E r \in UploadsOf(c.b) : r.x = 1 /\ r.st # 0

\* C2: when the response to the upload of a file is not a success, an
\* error notice naming that file is raised once, the request for the next
\* file of the queue is issued, and after the last file the batch
\* completes: it is no longer running and the queue of its upload view is
\* empty, the dialog closed and the uploading flag reset.
C2_FailureDoesNotAbort ==
    (last.act \in {"deliver", "batchDone"} /\ last.arg.kind = "upload"
       /\ ~Ok(last.arg.st))
    => /\ Count(last.fx, FxFallo(last.arg.files[last.arg.x + 1].name)) = 1
       /\ IF last.arg.x + 1 < Len(last.arg.files)
          THEN /\ last.act = "deliver"
               /\ \E r \in UploadsOf(last.arg.b) :
                     r.x = last.arg.x + 1 /\ r.st = 0
          ELSE /\ last.act = "batchDone"
               /\ \A c \in batches : c.b # last.arg.b
               /\ up.files = <<>> /\ ~up.showConfirm /\ ~up.uploading

C2_Witness ==
    /\ last.act = "deliver" /\ last.arg.kind = "upload"
    /\ last.arg.st = 500 /\ last.arg.x = 0
    /\ \E r \in UploadsOf(last.arg.b) : r.x = 1
    /\ Mounted /\ up.uploading

\* C3: when an upload request of a batch is rejected at the network level
\* and there are later files in the queue, the request for the next file is
\* still issued.
C3_RejectionIsolated ==
    (last.act = "reject" /\ last.arg.kind = "upload"
       /\ last.arg.x + 1 < Len(last.arg.files))
    => \E r \in UploadsOf(last.arg.b) : r.x = last.arg.x + 1

\* C4: every request carrying the credential that is answered with 401
\* forces a logout, whichever view issued it.
C4_Any401LogsOut ==
    (last.act \in {"deliver", "batchDone"} /\ last.arg.st = 401) => token = 0

\* C5: a 401 response delivered through the gateway invokes the expiry
\* callback exactly once and leaves the credential null; the credential
\* stays null until a login succeeds.
C5_ExpiryCallbackOnce ==
    /\ []((last.act \in {"deliver", "batchDone"}
             /\ last.arg.kind \in GatewayKinds /\ last.arg.st = 401)
          => (Count(last.fx, FxOnLogout) = 1 /\ token = 0))
    /\ [][(token = 0 /\ token' # 0) => last'.act = "loginOk"]_vars

C5_Witness ==
    /\ last.act = "deliver" /\ last.arg.kind \in GatewayKinds
    /\ last.arg.st = 401
    /\ last.fx = <<FxExpired, FxOnLogout>>
    /\ token = 0

\* C6: the session-expired notice is shown at most once for the expiry of
\* a credential, however many requests carrying it are answered with 401.
C6_NoticeOncePerExpiry ==
    \A t \in 1..MaxLogins : expiredAlerts[t] <= 1

\* C7: an upload request is issued with the credential that is current at
\* the moment it is issued.
C7_CurrentCredential ==
    [][\A r \in net' :
          (r.kind = "upload" /\ ~\E q \in net : SameKey(q, r))
          => r.tok = token']_vars

\* C8: for every record, at most one retry request of the mounted upload
\* view is in flight, and while it is pending the record's retry control
\* is disabled.
C8_RetryGuardPerRecord ==
    \A id \in RecIds :
        LET pend == {r \in net : r.kind = "retry" /\ r.x = id /\ r.live}
        IN  /\ Cardinality(pend) <= 1
            /\ pend # {} => ~RetryEnabled(id)

NoDupNameSize(q) ==
    \A i \in DOMAIN q : \A j \in DOMAIN q :
        i # j => ~SameNameSize(q[i], q[j])

InQueue(q, f) == \E j \in DOMAIN q : SameNameSize(q[j], f)

\* C9: the pending queue never holds two entries with the same (name,
\* size); addFiles with candidates whose (name, size) are all in the queue
\* leaves the queue unchanged and raises no notice.
C9_NoDuplicates ==
    /\ [](NoDupNameSize(up.files))
    /\ [][(last'.act = "addFiles"
            /\ \A k \in DOMAIN last'.arg : InQueue(up.files, last'.arg[k]))
          => (up'.files = up.files /\ last'.fx = <<>>)]_vars

C9_Witness ==
    /\ last.act = "addFiles"
    /\ last.arg = <<FOkCopy>>
    /\ up.files = <<FOkBig, FOk>>

\* the candidates addFiles has to append: allowed, not in the queue, and
\* the first of their (name, size) among the allowed candidates
Appended(q, L) ==
    {k \in DOMAIN L :
        /\ isAllowed(L[k])
        /\ ~InQueue(q, L[k])
        /\ ~\E k2 \in 1..(k - 1) : isAllowed(L[k2]) /\ SameNameSize(L[k2], L[k])}

Pick(L, K) ==
    LET F[i \in 0..Len(L)] ==
            IF i = 0 THEN <<>>
            ELSE IF i \in K THEN Append(F[i - 1], L[i]) ELSE F[i - 1]
    IN  F[Len(L)]

\* C10: addFiles appends to the queue, in candidate order, exactly the
\* candidates that pass the allow-list and are not duplicates, drops the
\* others, and raises the ignored-files notice if and only if a candidate
\* failed the allow-list.
C10_PartialAcceptance ==
    [][last'.act = "addFiles"
       => LET L == last'.arg
          IN  /\ up'.files = up.files \o Pick(L, Appended(up.files, L))
              /\ last'.fx = IF \E k \in DOMAIN L : ~isAllowed(L[k])
                            THEN <<FxIgnored>> ELSE <<>>]_vars

C10_Witness ==
    /\ last.act = "addFiles"
    /\ last.arg = <<FDocx, FOk>>
    /\ up.files = <<FXlsx, FOk>>
    /\ last.fx = <<FxIgnored>>

\* ----------------------------------------------------------------------
\* The submit handlers as functions of what their closure holds.
\* UploadPage takes "token: string | null" as a prop: the inputs are a
\* credential or none, a document kind or none, a queue, and whether the
\* confirmation dialog is open (it opens only over a non-empty queue with
\* a chosen kind).
\* ----------------------------------------------------------------------
SubmitKinds == {"", "factura", "venta"}

InitSubmit ==
    /\ token \in {0, 1}
    /\ page = "upload"
    /\ checkingToken = FALSE
    /\ login = "idle"
    /\ srvOps = [id \in RecIds |-> "FAILED"]
    /\ \E q \in BatchQueues \cup {<<>>} : \E k \in SubmitKinds :
       \E dlg \in BOOLEAN :
          /\ dlg => (q # <<>> /\ k # "")
          /\ up = [UploadPageInit EXCEPT !.ops = OpsList(srvOps),
                                         !.docType = k, !.files = q,
                                         !.showConfirm = dlg]
    /\ batches = {}
    /\ net = {}
    /\ accepted = {1}
    /\ issued = 1
    /\ delayMs \in DelayChoices
    /\ expiredAlerts = [t \in 1..MaxLogins |-> 0]
    /\ last = Last("init", 0, <<>>)

\* onClick={startUpload} of the rendered button
startUploadClick ==
    /\ page = "upload"
    /\ startUploadShown
    /\ startUploadRun
    /\ UpOnly

\* onClick={confirmUpload} of the dialog
confirmUploadClick ==
    /\ page = "upload"
    /\ confirmShown
    /\ confirmUploadRun
    /\ AppUnchanged /\ ServerUnchanged
    /\ UNCHANGED << expiredAlerts >>

\* onClick={() => setShowConfirm(false)} of the dialog
cancelConfirmClick ==
    /\ page = "upload"
    /\ confirmShown
    /\ up' = [up EXCEPT !.showConfirm = FALSE]
    /\ last' = Last("cancelConfirm", 0, <<>>)
    /\ UpOnly

\* the two document-kind buttons
setDocTypeClick(t) ==
    /\ page = "upload"
    /\ ~up.showConfirm
    /\ t # up.docType
    /\ up' = [up EXCEPT !.docType = t]
    /\ last' = Last("setDocType", 0, <<>>)
    /\ UpOnly

NextSubmit ==
    \/ startUploadClick
    \/ confirmUploadClick
    \/ cancelConfirmClick
    \/ \E t \in {"factura", "venta"} : setDocTypeClick(t)

SpecSubmit == InitSubmit /\ [][NextSubmit]_vars

successModal(u) ==
    [ shown |-> u.showSuccess, plural |-> Len(u.files) > 1 ]

\* C12: after a batch of N files has been drained the queue is empty and
\* the success confirmation reports N (plural form when N > 1).
C12_SuccessCount ==
    (last.act = "batchDone" /\ last.arg.live /\ Mounted)
    => ( /\ up.files = <<>>
         /\ successModal(up).shown
         /\ successModal(up).plural = (Len(last.arg.files) > 1) )

\* C13: with a positive delay the batch sleeps after every file, whether
\* its upload succeeded or failed, before the next file's request.
C13_DelayAfterEveryFile ==
    (delayMs > 0 /\ last.act = "deliver" /\ last.arg.kind = "upload")
    => \A c \in batches :
          c.b = last.arg.b
          => ( /\ c.pc = "sleep"
               /\ ~\E q \in net : q.kind = "upload" /\ q.b = c.b )

\* ----------------------------------------------------------------------
\* The headers of a gateway call.  The caller's "headers" option is a list
\* of (name, value) entries; a Headers object keeps, under the lower-cased
\* name, the values given for that name in order (the browser joins them
\* with ", ").
\* ----------------------------------------------------------------------
HAuthorization == <<"A", "u", "t", "h", "o", "r", "i", "z", "a", "t", "i", "o", "n">>
HContentType == <<"C", "o", "n", "t", "e", "n", "t", "-", "T", "y", "p", "e">>
HAccept == <<"A", "c", "c", "e", "p", "t">>

HeaderEntries ==
    { << HAuthorization, "Basic abc" >>,
      << toLowerCase(HAuthorization), "Bearer old" >>,
      << HContentType, "application/json" >>,
      << toLowerCase(HContentType), "text/plain" >>,
      << HAccept, "application/json" >>,
      << HAccept, "*/*" >> }

\* `Bearer ${token}`
Bearer(tok) == << "Bearer", tok >>

\* headers.append(name, value)
HeadersAppend(h, name, value) ==
    LET n == toLowerCase(name)
    IN  [ m \in DOMAIN h \cup {n} |->
            IF m = n
            THEN (IF n \in DOMAIN h THEN Append(h[n], value) ELSE <<value>>)
            ELSE h[m] ]

\* headers.set(name, value)
HeadersSet(h, name, value) ==
    LET n == toLowerCase(name)
    IN  [ m \in DOMAIN h \cup {n} |-> IF m = n THEN <<value>> ELSE h[m] ]

\* new Headers(init)
RECURSIVE HeadersFill(_, _)
HeadersFill(h, init) ==
    IF init = <<>> THEN h
    ELSE HeadersFill(HeadersAppend(h, Head(init)[1], Head(init)[2]),
                     Tail(init))

NewHeaders(init) == HeadersFill(<<>>, init)

\* (faulty variant: the caller's headers are replaced, not extended)
fetchWithAuthHeadersReplaced(tok, init) ==
    IF tok # 0
    THEN HeadersSet(<<>>, HAuthorization, Bearer(tok))
    ELSE NewHeaders(init)

\* fetchWithAuth before the call: the headers handed to fetch.  tok = 0
\* stands for an absent credential ("if (token)" is false)
fetchWithAuthHeaders(tok, init) ==
    LET headers == NewHeaders(init)
    IN  IF tok # 0
        THEN HeadersSet(headers, HAuthorization, Bearer(tok))
        ELSE headers

\* one call of the gateway on a credential (or none) and a headers option
GatewayCall(tok, init) ==
    /\ last' = Last("fetchWithAuth", [token |-> tok, headers |-> init],
                    <<fetchWithAuthHeaders(tok, init)>>)
    /\ AppUnchanged /\ ServerUnchanged
    /\ UNCHANGED << up, batches, net, expiredAlerts >>

NextGateway ==
    \E tok \in 0..MaxLogins :
    \E init \in SeqsUpTo(HeaderEntries, MaxHeaders) : GatewayCall(tok, init)

SpecGateway == Init /\ [][NextGateway]_vars

\* the values the caller gave for header name n, whatever the case
CallerValues(init, n) ==
    LET sel == SelectSeq(init, LAMBDA e : toLowerCase(e[1]) = n)
    IN  [ i \in DOMAIN sel |-> sel[i][2] ]

CallerNames(init) == { toLowerCase(init[i][1]) : i \in DOMAIN init }

\* C14: the request carries Authorization: Bearer <credential> iff a
\* credential was supplied; the caller's other headers are kept in both
\* cases, and with no credential the headers are exactly the caller's.
C14_AuthorizationHeader ==
    last.act = "fetchWithAuth"
    => LET tok == last.arg.token
           init == last.arg.headers
           out == last.fx[1]
           auth == toLowerCase(HAuthorization)
       IN  /\ tok # 0 => (auth \in DOMAIN out /\ out[auth] = <<Bearer(tok)>>)
           /\ tok = 0 => DOMAIN out = CallerNames(init)
           /\ \A n \in DOMAIN out :
                 (n # auth \/ tok = 0) => out[n] = CallerValues(init, n)
           /\ CallerNames(init) \subseteq DOMAIN out

\* a call with a credential and caller headers that include Content-Type
\* and an Authorization of the caller's own
C14_Witness ==
    /\ last.act = "fetchWithAuth"
    /\ last.arg.token = 1
    /\ last.arg.headers = << << HContentType, "application/json" >>,
                             << HAuthorization, "Basic abc" >> >>
    /\ last.fx[1][toLowerCase(HContentType)] = <<"application/json">>

\* C15: a network-level error during a validation call (view/credential
\* trigger or timer) clears the credential although no 401 was observed.
C15_ValidationErrorLogsOut ==
    (last.act = "reject" /\ last.arg.kind \in {"me_view", "me_timer"})
    => (token = 0 /\ page = "dashboard")

\* the periodic validation of a credential the service still accepts is
\* rejected by the network
C15_Witness ==
    /\ last.act = "reject"
    /\ last.arg.kind = "me_timer"
    /\ last.arg.tok \in accepted
    /\ expiredAlerts[last.arg.tok] = 0
    /\ token = 0

Pending(kind) == { q \in net : q.kind = kind }

\* C16: for each validation mechanism taken separately (view/credential
\* trigger, five-minute timer) at most one of its requests is pending.
C16_OneValidationPerMechanism ==
    /\ Cardinality(Pending("me_view")) <= 1
    /\ Cardinality(Pending("me_timer")) <= 1

\* the history response this step hands to loadHistorico's then-chain
HistoryApplied(r) ==
    /\ r \in net /\ r \notin net'
    /\ r.kind = "historico" /\ r.live /\ Ok(r.st)
    /\ last'.act = "deliver" /\ last'.arg.kind = "historico"

\* C17: a refresh whose response carries the record list that the
\* previous refresh displayed (remote list unchanged in between) leaves
\* the displayed ordered list as it was.
C17_RefreshIdempotent ==
    [][ \A r \in net :
          (HistoryApplied(r) /\ r.items = up.ops) => up'.ops = up.ops ]_vars

\* a second refresh has been applied over the list loaded at mount, the
\* records unchanged
C17_Witness ==
    /\ last.act = "deliver" /\ last.arg.kind = "historico"
    /\ last.arg.live /\ last.arg.st = 200
    /\ Mounted
    /\ Len(up.ops) = Cardinality(RecIds)
    /\ \A k \in DOMAIN up.ops : up.ops[k].status = srvOps[up.ops[k].id]
    /\ \A id \in RecIds : srvOps[id] = "FAILED"

\* ----------------------------------------------------------------------
\* Navigation: a logged-in operator changes the active view; each change
\* mounts the page and starts verifyToken
\* ----------------------------------------------------------------------
InitNav ==
    /\ token = 1
    /\ page = "dashboard"
    /\ checkingToken = FALSE
    /\ login = "idle"
    /\ srvOps = [id \in RecIds |-> "FAILED"]
    /\ up = UploadPageInit
    /\ batches = {}
    /\ net = {}
    /\ accepted = {1}
    /\ issued = 1
    /\ delayMs = 0
    /\ expiredAlerts = [t \in 1..MaxLogins |-> 0]
    /\ last = Last("init", 0, <<>>)

NextNav ==
    \/ \E p \in Pages : setPage(p)
    \/ \E r \in net : \E st \in {200, 401, 500} : DeliverMeView(r, st)
    \/ \E r \in net : RejectMeView(r)
    \/ \E r \in net : \E st \in {200, 401, 500} : DeliverSimple(r, st)
    \/ \E r \in net : RejectSimple(r)
    \/ \E r \in net : ServerHandle(r)
    \/ \E r \in net : DeliverHistorico(r)
    \/ \E r \in net : RejectHistorico(r)
    \/ \E t \in 1..MaxLogins : ServerExpire(t)
    \/ handleLogout

SpecNav == InitNav /\ [][NextNav]_vars

\* C18: when the validation that follows a view change is answered with
\* a response that is not successful, of any status, the session becomes
\* unauthenticated.
C18_FailedValidationLogsOut ==
    (last.act = "deliver" /\ last.arg.kind = "me_view" /\ ~Ok(last.arg.st))
    => token = 0

\* C19: a history refresh is issued after every retry attempt: after a
\* success, after a response that is not successful, after a network
\* failure.
C19_RefreshAfterEveryRetry ==
    (last.act \in {"deliver", "reject"} /\ last.arg.kind = "retry")
    => \E q \in net : q.kind = "historico" /\ q.st = 0

\* C20: within a batch each upload that succeeds triggers one history
\* refresh at once, before the pacing delay and the next file's request,
\* and an upload that fails triggers none.
C20_RefreshPerSuccessfulUpload ==
    [][ (last'.act \in {"deliver", "batchDone"} /\ last'.arg.kind = "upload")
        => ( /\ Cardinality(Pending("historico")')
                  = Cardinality(Pending("historico"))
                    + (IF Ok(last'.arg.st) THEN 1 ELSE 0)
             /\ (Ok(last'.arg.st) /\ delayMs > 0)
                => ~\E q \in net' : q.kind = "upload" /\ q.b = last'.arg.b )
      ]_vars

\* the first file of a longer queue has been uploaded: its refresh is in
\* flight while the batch sleeps
C20_Witness ==
    /\ last.act = "deliver" /\ last.arg.kind = "upload"
    /\ last.arg.st = 200 /\ last.arg.x = 0
    /\ delayMs > 0
    /\ \E c \in batches : c.b = last.arg.b /\ c.pc = "sleep"
    /\ \E q \in net : q.kind = "historico" /\ q.st = 0 /\ q.live

\* ----------------------------------------------------------------------
\* The outcome of a gateway call.  fetch either resolves with a response
\* (status, body) or rejects with an error; fetchWithAuth awaits it.
\* ----------------------------------------------------------------------
Statuses == {200, 204, 302, 400, 401, 403, 404, 500}
Bodies == {"{}", "error"}
FetchErrors == {"TypeError", "AbortError"}

FetchOutcomes ==
    { [type |-> "response", status |-> s, body |-> b] :
          s \in Statuses, b \in Bodies }
    \cup { [type |-> "error", error |-> e] : e \in FetchErrors }

\* (faulty variant: a 401 is turned into a rejection)
fetchWithAuthSettleThrowing(outcome, hasOnLogout) ==
    IF outcome.type = "error"
    THEN [ fx |-> <<>>, type |-> "reject", value |-> outcome.error ]
    ELSE IF outcome.status = 401
    THEN [ fx |-> fetchWithAuth(outcome.status, hasOnLogout),
           type |-> "reject", value |-> "Unauthorized" ]
    ELSE [ fx |-> <<>>, type |-> "resolve", value |-> outcome ]

\* fetchWithAuth from "await fetch(...)" to its return: what it does and
\* what its promise settles with
fetchWithAuthSettle(outcome, hasOnLogout) ==
    IF outcome.type = "error"
    THEN [ fx |-> <<>>, type |-> "reject", value |-> outcome.error ]
    ELSE [ fx |-> fetchWithAuth(outcome.status, hasOnLogout),
           type |-> "resolve", value |-> outcome ]

GatewaySettle(tok, outcome, hasOnLogout) ==
    /\ last' = Last("fetchWithAuthSettle",
                    [ token |-> tok, outcome |-> outcome,
                      hasOnLogout |-> hasOnLogout,
                      settled |-> fetchWithAuthSettle(outcome, hasOnLogout) ],
                    fetchWithAuthSettle(outcome, hasOnLogout).fx)
    /\ AppUnchanged /\ ServerUnchanged
    /\ UNCHANGED << up, batches, net, expiredAlerts >>

NextSettle ==
    \E tok \in 0..MaxLogins : \E outcome \in FetchOutcomes :
    \E hasOnLogout \in BOOLEAN : GatewaySettle(tok, outcome, hasOnLogout)

SpecSettle == Init /\ [][NextSettle]_vars

\* C21: the gateway resolves with the raw response for every status, 401
\* included; a failed network call rejects with its error, without notice
\* or callback; a 401 without callback shows no notice; with a callback
\* the notice comes before the callback.
C21_RawResponse ==
    last.act = "fetchWithAuthSettle"
    => LET o == last.arg.outcome
           s == last.arg.settled
       IN  /\ o.type = "response"
              => (s.type = "resolve" /\ s.value = o)
           /\ o.type = "error"
              => (s.type = "reject" /\ s.value = o.error /\ last.fx = <<>>)
           /\ (o.type = "response" /\ o.status = 401 /\ ~last.arg.hasOnLogout)
              => last.fx = <<>>
           /\ (o.type = "response" /\ o.status = 401 /\ last.arg.hasOnLogout)
              => last.fx = <<FxExpired, FxOnLogout>>

\* a 401 with a callback: notice, callback, and the response handed back
C21_Witness ==
    /\ last.act = "fetchWithAuthSettle"
    /\ last.arg.outcome = [type |-> "response", status |-> 401,
                           body |-> "error"]
    /\ last.arg.hasOnLogout
    /\ last.fx = <<FxExpired, FxOnLogout>>
    /\ last.arg.settled.type = "resolve"

\* the step ran handleLogout: directly, as onLogout of the gateway, or
\* from the catch block of a validation
RanHandleLogout(l) ==
    Count(l.fx, FxOnLogout) + Count(l.fx, FxHandleLogout) > 0

\* C22: the credential appears only with a successful login response (a
\* failed or rejected login leaves it absent), disappears only through
\* handleLogout, and a successful validation leaves credential and view
\* as they were.
C22_CredentialTransitions ==
    [][ /\ (token = 0 /\ token' # 0) => last'.act = "loginOk"
        /\ (token = 0 /\ last'.act = "loginFail") => token' = 0
        /\ (token # 0 /\ token' # token) => (token' = 0 /\ RanHandleLogout(last'))
        /\ ( /\ last'.act = "deliver"
             /\ last'.arg.kind \in {"me_view", "me_timer"}
             /\ Ok(last'.arg.st) )
           => (token' = token /\ page' = page) ]_vars

\* the periodic validation of the current credential has succeeded
C22_Witness ==
    /\ last.act = "deliver"
    /\ last.arg.kind = "me_timer"
    /\ last.arg.st = 200
    /\ token # 0 /\ last.arg.tok = token

\* C23: once a retry has resolved in any way the guard of its record is
\* no longer set, and the guard is set only while the retry it was set
\* for is pending.
C23_GuardReleased ==
    /\ ( /\ last.act \in {"deliver", "reject"}
         /\ last.arg.kind = "retry" /\ last.arg.live /\ Mounted )
       => up.retryingId # last.arg.x
    /\ (Mounted /\ up.retryingId # 0)
       => \E q \in net : q.kind = "retry" /\ q.live /\ q.x = up.retryingId

\* a retry of record 1 failed at the network level and the control of
\* record 1 can be used again
C23_Witness ==
    /\ last.act = "reject"
    /\ last.arg.kind = "retry" /\ last.arg.live /\ last.arg.x = 1
    /\ Mounted
    /\ RetryEnabled(1)

\* the step is the end of a retry that failed: a response that is not
\* ok, or a rejected request
RetryFailed(l) ==
    /\ l.act \in {"deliver", "reject"}
    /\ l.arg.kind = "retry"
    /\ ~Ok(l.arg.st)

\* C24: a failed retry surfaces the error and leaves the displayed
\* records as they were; the displayed records change only when a history
\* response is applied.
C24_NoLocalMutation ==
    [][ /\ (RetryFailed(last') /\ last'.arg.live /\ Mounted')
           => (up'.ops = up.ops /\ Count(last'.fx, FxNoSePudo) = 1)
        /\ (Mounted' /\ up'.ops # up.ops)
           => (last'.act = "deliver" /\ last'.arg.kind = "historico") ]_vars

\* a retry answered 500 on a displayed list that still shows it FAILED
C24_Witness ==
    /\ last.act = "deliver"
    /\ last.arg.kind = "retry" /\ last.arg.st = 500 /\ last.arg.live
    /\ Mounted
    /\ last.fx = <<FxNoSePudo>>
    /\ \E k \in DOMAIN up.ops :
          up.ops[k].id = last.arg.x /\ up.ops[k].status = "FAILED"

\* ----------------------------------------------------------------------
\* A batch in progress while the operator leaves the upload view and
\* comes back: the page that mounts again is a new instance
\* ----------------------------------------------------------------------
InitRemount ==
    /\ InitBatch
    /\ delayMs = 0
    /\ Len(up.files) = 1

NextRemount ==
    \/ startUpload
    \/ confirmUpload
    \/ \E r \in net : ServerHandle(r)
    \/ \E r \in net : DeliverUpload(r)
    \/ \E p \in {"mesdetalle", "upload"} : setPage(p)
    \/ \E r \in net : \E st \in {200} : DeliverMeView(r, st)
    \/ \E r \in net : DeliverHistorico(r)
    \/ AddFiles(<<FA>>)
    \/ setDocType("factura")

SpecRemount == InitRemount /\ [][NextRemount]_vars

\* C25: at most one upload request of the application is in flight at
\* any time, whatever the operator does.
C25_OneUploadAppWide == Cardinality(Pending("upload")) <= 1

\* C26: a session ends only on the answer to (or the failure of) a
\* request that carried its own credential, never on one that carried an
\* earlier credential.
C26_OwnCredentialOnly ==
    [][ ( /\ token # 0 /\ token' = 0
          /\ last'.act \in {"deliver", "reject"} )
        => last'.arg.tok = token ]_vars

\* ----------------------------------------------------------------------
\* Two history refreshes in flight.  loadHistorico is not awaited by its
\* callers, so a second refresh can be issued while the first is pending;
\* the first (serial 0) was answered before the records last changed, the
\* second (serial 1) has not reached the service yet.
\* ----------------------------------------------------------------------
RecordStates == [RecIds -> {"FAILED", "PROCESSED"}]

InitRefresh ==
    /\ token = 1
    /\ page = "upload"
    /\ checkingToken = FALSE
    /\ login = "idle"
    /\ srvOps \in RecordStates
    /\ \E shown \in RecordStates :
          up = [UploadPageInit EXCEPT !.ops = OpsList(shown)]
    /\ batches = {}
    /\ \E old \in RecordStates :
          /\ old # srvOps
          /\ net = { [Req("historico", 1, TRUE, 0, 0) EXCEPT
                         !.st = 200, !.items = OpsList(old),
                         !.n = 0, !.pre = TRUE],
                     [Req("historico", 1, TRUE, 0, 0) EXCEPT
                         !.n = 1, !.pre = TRUE] }
    /\ accepted = {1}
    /\ issued = 1
    /\ delayMs \in DelayChoices
    /\ expiredAlerts = [t \in 1..MaxLogins |-> 0]
    /\ last = Last("init", 0, <<>>)

NextRefresh ==
    \/ \E r \in net : ServerHandle(r)
    \/ \E r \in net : DeliverHistorico(r)
    \/ \E r \in net : RejectHistorico(r)

SpecRefresh == InitRefresh /\ [][NextRefresh]_vars

\* C27: the response of an older refresh never overwrites that of a
\* newer one: once the response to the refresh issued last has been
\* applied, the response to the refresh issued first leaves the list alone.
C27_NewestRefreshWins ==
    [][ \A r \in net :
          ( /\ HistoryApplied(r) /\ r.n = 0
            /\ last.act = "deliver" /\ last.arg.kind = "historico"
            /\ Ok(last.arg.st) )
          => up'.ops = up.ops ]_vars

\* the last step was the rejection of an upload request of the instance
\* on screen
UploadRejected(l) ==
    l.act = "reject" /\ l.arg.kind = "upload" /\ l.arg.live

\* C28: after a rejected upload request has ended a batch the queue is
\* as it was before the batch, the dialog is still open, no success is
\* shown, one error notice was given and the uploading flag is reset; a
\* new confirmation starts again from the first queued file.
C28_RejectedBatchKeepsQueue ==
    /\ []( (UploadRejected(last) /\ Mounted)
           => ( /\ up.files = last.arg.files
                /\ up.showConfirm
                /\ ~up.showSuccess
                /\ last.fx = <<FxErrorSubiendo>>
                /\ ~up.uploading
                /\ up.uploadingIndex = -1 ) )
    /\ [][ (UploadRejected(last) /\ Mounted /\ last'.act = "confirmUpload")
           => \E c \in batches' :
                 /\ c.files = last.arg.files /\ c.i = 0
                 /\ \E q \in net' : q.kind = "upload" /\ q.b = c.b /\ q.x = 0
         ]_vars

\* the request for the second file was rejected after the first file had
\* been uploaded
C28_Witness ==
    /\ UploadRejected(last) /\ Mounted
    /\ last.arg.x = 1
    /\ up.showConfirm /\ Len(up.files) >= 2

\* Every request is eventually answered or rejected, every pacing delay
\* eventually ends: the promises confirmUpload awaits are settled by the
\* browser's event loop
BatchFairness ==
    /\ \A b \in 1..MaxBatches :
          /\ WF_vars(\E r \in net : /\ r.kind = "upload" /\ r.b = b
                                    /\ (DeliverUpload(r) \/ RejectUpload(r)))
          /\ WF_vars(\E c \in batches : c.b = b /\ SleepDone(c))
    /\ WF_vars(\E r \in net : ServerHandle(r))
    /\ WF_vars(\E r \in net : DeliverHistorico(r) \/ RejectHistorico(r))

SpecBatchFair == InitBatch /\ [][NextBatch]_vars /\ BatchFairness

\* batch b is running
Running(b) == \E c \in batches : c.b = b

\* the last step ended a batch of the instance on screen
BatchEnded(l) ==
    /\ l.act = "batchDone" \/ (l.act = "reject" /\ l.arg.kind = "upload")
    /\ l.arg.live

\* C29: when every request and every pacing delay eventually resolves,
\* every started batch eventually terminates, and whenever a batch has
\* ended (all files done, with or without non-success responses, or a
\* rejected request) the uploading flag is false and the progress index
\* is null.
C29_BatchTerminates ==
    /\ \A b \in 1..MaxBatches : Running(b) ~> ~Running(b)
    /\ []( (BatchEnded(last) /\ Mounted)
           => (~up.uploading /\ up.uploadingIndex = -1) )

\* a batch has ended after a non-success response to its last file
C29_Witness ==
    /\ BatchEnded(last) /\ Mounted
    /\ last.act = "batchDone" /\ ~Ok(last.arg.st)
    /\ ~up.uploading /\ up.uploadingIndex = -1

\* ----------------------------------------------------------------------
\* Sessions with navigation: login, view changes with their validation,
\* the requests of the pages, logout
\* ----------------------------------------------------------------------
NextView ==
    \/ LoginSubmit
    \/ LoginOk
    \/ LoginFail
    \/ handleLogout
    \/ \E p \in Pages : setPage(p)
    \/ \E t \in 1..MaxLogins : ServerExpire(t)
    \/ \E r \in net : \E st \in {200, 401, 500} : DeliverMeView(r, st)
    \/ \E r \in net : RejectMeView(r)
    \/ \E r \in net : \E st \in {200, 401, 500} : DeliverSimple(r, st)
    \/ \E r \in net : RejectSimple(r)
    \/ \E r \in net : ServerHandle(r)
    \/ \E r \in net : DeliverHistorico(r)
    \/ \E r \in net : RejectHistorico(r)

SpecView == InitSession /\ [][NextView]_vars

\* C30: whenever the credential is absent the current view is
\* 'dashboard', and the view changes only in steps taken while a
\* credential is present.
C30_NoCredentialMeansDashboard ==
    /\ [](token = 0 => page = "dashboard")
    /\ [][ page' # page => token # 0 ]_vars

\* a 401 on the history request of the Upload page has forced the logout
C30_Witness ==
    /\ last.act = "deliver" /\ last.arg.kind = "historico"
    /\ last.arg.st = 401
    /\ Count(last.fx, FxOnLogout) > 0
    /\ token = 0 /\ page = "dashboard"

====
